---- MODULE Spec2Model ----
(***************************************************************************)
(* Model of static/js/script.js: the to-do list page controller.           *)
(*                                                                         *)
(* The page holds an input field, a list container and a set of requests   *)
(* that are in flight.  Every async function of the script is split at its *)
(* await points: the call (up to the first await), the continuation after  *)
(* `await fetch(...)` and the continuation after `await response.json()`.  *)
(* The remote API (/api/todos) is the environment: it answers each request *)
(* at its own pace, with success or failure.                               *)
(***************************************************************************)
EXTENDS Integers, Sequences, FiniteSets, Bags, TLC

(* ------------------------------ bounds -------------------------------- *)
\* largest task id the server hands out; a create beyond it is refused
MaxId == 2
\* most requests in flight when the user triggers another operation
MaxInflight == 2

(* ------------------------------ strings ------------------------------- *)
\* values the user gives the input field: empty, whitespace only, a plain
\* title, a title with whitespace around it
InputValues == {<<>>, <<" ", " ">>, <<"a">>, <<" ", "a", " ">>}

RECURSIVE trimStart(_)
trimStart(s) == IF s # <<>> /\ Head(s) = " " THEN trimStart(Tail(s)) ELSE s

RECURSIVE trimEnd(_)
trimEnd(s) ==
    IF s # <<>> /\ s[Len(s)] = " " THEN trimEnd(SubSeq(s, 1, Len(s) - 1)) ELSE s

\* a mutant of trim: the value is taken as typed
trimNothing(s) == s

\* String.prototype.trim
trim(s) == trimEnd(trimStart(s))

(* ------------------------------ requests ------------------------------ *)
\* A request in flight: the async function awaiting it (fn), what fetch()
\* was given (method, id of the addressed task, body), its phase and the
\* response.  Phases: sent (the server has not seen it), responded (the
\* response is on its way), body (the script awaits response.json()).
NoTodos == <<>>
NoTitle == <<>>
NoId == 0

Request(fn, method, id, hasBody, title) ==
    [fn |-> fn, method |-> method, id |-> id, hasBody |-> hasBody,
     title |-> title, phase |-> "sent", ok |-> FALSE, parses |-> FALSE,
     todos |-> NoTodos, hasMsg |-> FALSE, msg |-> ""]

\* fetch('/api/todos')
ListRequest == Request("fetchTodos", "GET", NoId, FALSE, NoTitle)

\* fetch('/api/todos', {method: 'POST', body: JSON.stringify({ title })})
CreateRequest(title) == Request("addTodo", "POST", NoId, TRUE, title)

\* a mutant of DeleteRequest: the request is not addressed to the task
DeleteRequestNoId(id) == Request("deleteTodo", "DELETE", NoId, FALSE, NoTitle)

\* fetch(`/api/todos/${id}`, { method: 'DELETE' })
DeleteRequest(id) == Request("deleteTodo", "DELETE", id, FALSE, NoTitle)

\* fetch(`/api/todos/${id}`, { method: 'PUT' })
ToggleRequest(id) == Request("toggleTodo", "PUT", id, FALSE, NoTitle)

NoReq == Request("none", "none", NoId, FALSE, NoTitle)

(* ------------------------------ rendering ----------------------------- *)
\* the list container: the empty-state placeholder and the rows
Blank == [placeholder |-> FALSE, rows |-> <<>>]

\* a mutant of todoItem: the toggle label is the wrong way round
todoItemSwapped(todo) ==
    [cls      |-> IF todo.completed THEN "todo-item completed" ELSE "todo-item ",
     title    |-> todo.title,
     time     |-> todo.created_at,
     toggleId |-> todo.id,
     icon     |-> IF todo.completed THEN "fa-undo" ELSE "fa-check",
     label    |-> IF todo.completed THEN "Complete" ELSE "Undo",
     deleteId |-> todo.id]

\* one row of the list, as the template literal builds it
todoItem(todo) ==
    [cls      |-> IF todo.completed THEN "todo-item completed" ELSE "todo-item ",
     title    |-> todo.title,
     time     |-> todo.created_at,
     toggleId |-> todo.id,
     icon     |-> IF todo.completed THEN "fa-undo" ELSE "fa-check",
     label    |-> IF todo.completed THEN "Undo" ELSE "Complete",
     deleteId |-> todo.id]

\* todos.forEach(todo => todoList.appendChild(todoItem))
RECURSIVE forEachAppend(_, _)
forEachAppend(list, todos) ==
    IF todos = <<>> THEN list
    ELSE forEachAppend([list EXCEPT !.rows = Append(@, todoItem(Head(todos)))],
                       Tail(todos))

\* a mutant of displayTodos: the previous content is kept
displayTodosNoClear(list, todos) ==
    IF Len(todos) = 0 THEN [list EXCEPT !.placeholder = TRUE]
    ELSE forEachAppend(list, todos)

\* a mutant of displayTodos: an empty list is rendered as nothing
displayTodosNoPlaceholder(list, todos) ==
    LET cleared == [list EXCEPT !.placeholder = FALSE, !.rows = <<>>]
    IN  forEachAppend(cleared, todos)

\* a mutant of displayTodos: the rows are removed, the placeholder is left
displayTodosRowsOnly(list, todos) ==
    LET cleared == [list EXCEPT !.rows = <<>>]
    IN  IF Len(todos) = 0 THEN [cleared EXCEPT !.placeholder = TRUE]
        ELSE forEachAppend(cleared, todos)

\* displayTodos(todos), on the container's previous content
displayTodos(list, todos) ==
    LET cleared == [list EXCEPT !.placeholder = FALSE, !.rows = <<>>]
    IN  IF Len(todos) = 0 THEN [cleared EXCEPT !.placeholder = TRUE]
        ELSE forEachAppend(cleared, todos)

(* ------------------------------ alerts -------------------------------- *)
NoAlert == <<>>
AlertPrefix == "Failed to add todo: "
UnknownError == "Unknown error"
RetryAlert == <<"Failed to add todo. Please try again.">>

\* a mutant of errorAlert: the message of the body is ignored
errorAlertNoMessage(errorData) == <<AlertPrefix, UnknownError>>

\* 'Failed to add todo: ' + (errorData.message || 'Unknown error')
errorAlert(errorData) ==
    <<AlertPrefix,
      IF errorData.hasMsg /\ errorData.msg # "" THEN errorData.msg
      ELSE UnknownError>>

(* ------------------------------ state --------------------------------- *)
VARIABLES
    loaded,     \* DOMContentLoaded has fired and the handlers are installed
    input,      \* value of #todoInput
    todoList,   \* content of #todoList
    reqs,       \* bag of the requests in flight
    alert,      \* text of the alert() that blocks the page, or NoAlert
    server,     \* the tasks the server stores, in its order
    nextId,     \* the id the server gives to the next task
    lastList,   \* payload of the last list response that was parsed
    event       \* the step just taken: handler, request, console.error text

vars == <<loaded, input, todoList, reqs, alert, server, nextId, lastList, event>>

\* op: the handler or continuation that ran; by: what triggered it; id: the
\* task id it was called with; req: the request it issued or resumed on;
\* log: its console.error text; had: the input value a step of addTodo
\* overwrote; over: what displayTodos found in the container
Ev(op, by, id, r, log) ==
    [op |-> op, by |-> by, id |-> id, req |-> r, log |-> log,
     had |-> <<>>, over |-> "none"]

\* what the container holds when displayTodos(todos) is called: the very
\* rendering of todos, other rows, the empty-state placeholder, or nothing
Prior(list, todos) ==
    CASE list = displayTodos(Blank, todos) -> "same"
      [] list.rows # <<>>                  -> "rows"
      [] list.placeholder                  -> "empty"
      [] OTHER                             -> "blank"

InFlight == BagToSet(reqs)

Task(id, title, completed) ==
    [id |-> id, title |-> title, completed |-> completed, created_at |-> id]

\* the tasks the server may hold when the page is opened
InitialServers == {<<>>, <<Task(1, <<"a">>, FALSE)>>}

Init ==
    /\ loaded = FALSE
    /\ input = <<>>
    /\ todoList = Blank
    /\ reqs = EmptyBag
    /\ alert = NoAlert
    /\ server \in InitialServers
    /\ nextId = Len(server) + 1
    /\ lastList = [has |-> FALSE, todos |-> NoTodos]
    /\ event = Ev("none", "none", NoId, NoReq, "")

(* ------------------------------ helpers ------------------------------- *)
\* the user may start another request
CanIssue == BagCardinality(reqs) < MaxInflight

\* script runs and the user acts only while no alert() blocks the page
Running == alert = NoAlert

Remove(r) == reqs (-) SetToBag({r})

Resume(r, phase) == Remove(r) (+) SetToBag({[r EXCEPT !.phase = phase]})

\* the synchronous part of fetchTodos(): the request is issued
fetchTodos(rs) == rs (+) SetToBag({ListRequest})

(* ------------------------------ page load ----------------------------- *)
DOMContentLoaded ==
    /\ ~loaded
    /\ loaded' = TRUE
    /\ reqs' = fetchTodos(reqs)
    /\ event' = Ev("DOMContentLoaded", "load", NoId, ListRequest, "")
    /\ UNCHANGED <<input, todoList, alert, server, nextId, lastList>>

\* the user edits the input field
UserInput(v) ==
    /\ Running
    /\ v # input
    /\ input' = v
    /\ event' = Ev("input", "user", NoId, NoReq, "")
    /\ UNCHANGED <<loaded, todoList, reqs, alert, server, nextId, lastList>>

\* the user dismisses the alert
Dismiss ==
    /\ ~Running
    /\ alert' = NoAlert
    /\ event' = Ev("dismiss", "user", NoId, NoReq, "")
    /\ UNCHANGED <<loaded, input, todoList, reqs, server, nextId, lastList>>

(* ------------------------------ addTodo ------------------------------- *)
\* a mutant of addTodo: the guard tests the value as typed
addTodoNoTrimGuard(by) ==
    LET title == trim(input)
    IN  IF input = <<>>
        THEN /\ event' = Ev("addTodo", by, NoId, NoReq, "")
             /\ UNCHANGED <<loaded, input, todoList, reqs, alert, server,
                            nextId, lastList>>
        ELSE /\ CanIssue
             /\ reqs' = reqs (+) SetToBag({CreateRequest(title)})
             /\ event' = Ev("addTodo", by, NoId, CreateRequest(title), "")
             /\ UNCHANGED <<loaded, input, todoList, alert, server, nextId,
                            lastList>>

\* a mutant of addTodo: nothing is sent while a POST is in flight
addTodoGuarded(by) ==
    LET title == trim(input)
    IN  IF title = <<>> \/ \E r \in InFlight : r.fn = "addTodo"
        THEN /\ event' = Ev("addTodo", by, NoId, NoReq, "")
             /\ UNCHANGED <<loaded, input, todoList, reqs, alert, server,
                            nextId, lastList>>
        ELSE /\ CanIssue
             /\ reqs' = reqs (+) SetToBag({CreateRequest(title)})
             /\ event' = Ev("addTodo", by, NoId, CreateRequest(title), "")
             /\ UNCHANGED <<loaded, input, todoList, alert, server, nextId,
                            lastList>>

\* addTodo() up to its first await
addTodo(by) ==
    LET title == trim(input)
    IN  IF title = <<>>
        THEN /\ event' = Ev("addTodo", by, NoId, NoReq, "")
             /\ UNCHANGED <<loaded, input, todoList, reqs, alert, server,
                            nextId, lastList>>
        ELSE /\ CanIssue
             /\ reqs' = reqs (+) SetToBag({CreateRequest(title)})
             /\ event' = Ev("addTodo", by, NoId, CreateRequest(title), "")
             /\ UNCHANGED <<loaded, input, todoList, alert, server, nextId,
                            lastList>>

\* click on #addBtn
Click ==
    /\ loaded /\ Running
    /\ addTodo("click")

Keys == {"Enter", "a"}

\* a mutant of KeyPress: the key is not looked at
KeyPressAnyKey(key) ==
    /\ loaded /\ Running
    /\ addTodo(key)

\* keypress in #todoInput
KeyPress(key) ==
    /\ loaded /\ Running
    /\ IF key = "Enter"
       THEN addTodo(key)
       ELSE /\ event' = Ev("keypress", key, NoId, NoReq, "")
            /\ UNCHANGED <<loaded, input, todoList, reqs, alert, server,
                           nextId, lastList>>

\* a mutant of addTodoResponse: the input is cleared only while it still
\* holds the title that was sent
addTodoResponseClearIfSame(r) ==
    /\ Running
    /\ r.fn = "addTodo" /\ r.phase = "responded"
    /\ IF r.ok
       THEN /\ input' = IF trim(input) = r.title THEN <<>> ELSE input
            /\ reqs' = fetchTodos(Remove(r))
            /\ event' = [Ev("addTodoResponse", "response", NoId, r, "")
                            EXCEPT !.had = input]
       ELSE /\ reqs' = Resume(r, "body")
            /\ event' = Ev("addTodoResponse", "response", NoId, r, "")
            /\ UNCHANGED input
    /\ UNCHANGED <<loaded, todoList, alert, server, nextId, lastList>>

\* addTodo() after `await fetch(...)` resolved
addTodoResponse(r) ==
    /\ Running
    /\ r.fn = "addTodo" /\ r.phase = "responded"
    /\ IF r.ok
       THEN /\ input' = <<>>
            /\ reqs' = fetchTodos(Remove(r))
            /\ event' = [Ev("addTodoResponse", "response", NoId, r, "")
                            EXCEPT !.had = input]
       ELSE /\ reqs' = Resume(r, "body")
            /\ event' = Ev("addTodoResponse", "response", NoId, r, "")
            /\ UNCHANGED input
    /\ UNCHANGED <<loaded, todoList, alert, server, nextId, lastList>>

\* addTodo() after `await response.json()` settled, on a failure status
addTodoErrorBody(r) ==
    /\ Running
    /\ r.fn = "addTodo" /\ r.phase = "body"
    /\ reqs' = Remove(r)
    /\ IF r.parses
       THEN /\ alert' = errorAlert(r)
            /\ event' = Ev("addTodoErrorBody", "body", NoId, r, "Failed to add todo:")
       ELSE /\ alert' = RetryAlert
            /\ event' = Ev("addTodoErrorBody", "body", NoId, r, "Error adding todo:")
    /\ UNCHANGED <<loaded, input, todoList, server, nextId, lastList>>

\* a mutant of addTodoReject: the error is logged only
addTodoRejectSilent(r) ==
    /\ Running
    /\ r.fn = "addTodo" /\ r.phase \in {"sent", "responded"}
    /\ reqs' = Remove(r)
    /\ event' = Ev("addTodoReject", "reject", NoId, r, "Error adding todo:")
    /\ UNCHANGED <<loaded, input, todoList, alert, server, nextId, lastList>>

\* a mutant of addTodoReject: the error leaves the add control unbound
addTodoRejectUnbinds(r) ==
    /\ Running
    /\ r.fn = "addTodo" /\ r.phase \in {"sent", "responded"}
    /\ reqs' = Remove(r)
    /\ alert' = RetryAlert
    /\ loaded' = FALSE
    /\ event' = Ev("addTodoReject", "reject", NoId, r, "Error adding todo:")
    /\ UNCHANGED <<input, todoList, server, nextId, lastList>>

\* addTodo(): `await fetch(...)` rejected, the request never completed
addTodoReject(r) ==
    /\ Running
    /\ r.fn = "addTodo" /\ r.phase \in {"sent", "responded"}
    /\ reqs' = Remove(r)
    /\ alert' = RetryAlert
    /\ event' = Ev("addTodoReject", "reject", NoId, r, "Error adding todo:")
    /\ UNCHANGED <<loaded, input, todoList, server, nextId, lastList>>

(* ------------------------------ fetchTodos ---------------------------- *)
\* a mutant of fetchTodosResponse: the status is not looked at
fetchTodosResponseNoCheck(r) ==
    /\ Running
    /\ r.fn = "fetchTodos" /\ r.phase = "responded"
    /\ reqs' = Resume(r, "body")
    /\ event' = Ev("fetchTodosResponse", "response", NoId, r, "")
    /\ UNCHANGED <<loaded, input, todoList, alert, server, nextId, lastList>>

\* fetchTodos() after `await fetch(...)` resolved
fetchTodosResponse(r) ==
    /\ Running
    /\ r.fn = "fetchTodos" /\ r.phase = "responded"
    /\ IF r.ok
       THEN /\ reqs' = Resume(r, "body")
            /\ event' = Ev("fetchTodosResponse", "response", NoId, r, "")
       ELSE /\ reqs' = Remove(r)
            /\ event' = Ev("fetchTodosResponse", "response", NoId, r,
                           "Error fetching todos:")
    /\ UNCHANGED <<loaded, input, todoList, alert, server, nextId, lastList>>

\* a mutant of fetchTodosBody: an empty list is not rendered
fetchTodosBodySkipEmpty(r) ==
    /\ Running
    /\ r.fn = "fetchTodos" /\ r.phase = "body"
    /\ reqs' = Remove(r)
    /\ IF r.parses /\ r.todos # <<>>
       THEN /\ todoList' = displayTodos(todoList, r.todos)
            /\ lastList' = [has |-> TRUE, todos |-> r.todos]
            /\ event' = [Ev("fetchTodosBody", "body", NoId, r, "")
                            EXCEPT !.over = Prior(todoList, r.todos)]
       ELSE /\ event' = [Ev("fetchTodosBody", "body", NoId, r, "")
                            EXCEPT !.over = Prior(todoList, r.todos)]
            /\ UNCHANGED <<todoList, lastList>>
    /\ UNCHANGED <<loaded, input, alert, server, nextId>>

\* a mutant of fetchTodosBody: the container is emptied before the body is
\* looked at
fetchTodosBodyClearsFirst(r) ==
    /\ Running
    /\ r.fn = "fetchTodos" /\ r.phase = "body"
    /\ reqs' = Remove(r)
    /\ IF r.parses
       THEN /\ todoList' = displayTodos(todoList, r.todos)
            /\ lastList' = [has |-> TRUE, todos |-> r.todos]
            /\ event' = [Ev("fetchTodosBody", "body", NoId, r, "")
                            EXCEPT !.over = Prior(todoList, r.todos)]
       ELSE /\ todoList' = Blank
            /\ event' = Ev("fetchTodosBody", "body", NoId, r, "Error fetching todos:")
            /\ UNCHANGED lastList
    /\ UNCHANGED <<loaded, input, alert, server, nextId>>

\* fetchTodos() after `await response.json()` settled
fetchTodosBody(r) ==
    /\ Running
    /\ r.fn = "fetchTodos" /\ r.phase = "body"
    /\ reqs' = Remove(r)
    /\ IF r.parses
       THEN /\ todoList' = displayTodos(todoList, r.todos)
            /\ lastList' = [has |-> TRUE, todos |-> r.todos]
            /\ event' = [Ev("fetchTodosBody", "body", NoId, r, "")
                            EXCEPT !.over = Prior(todoList, r.todos)]
       ELSE /\ event' = Ev("fetchTodosBody", "body", NoId, r, "Error fetching todos:")
            /\ UNCHANGED <<todoList, lastList>>
    /\ UNCHANGED <<loaded, input, alert, server, nextId>>

\* fetchTodos(): `await fetch(...)` rejected
fetchTodosReject(r) ==
    /\ Running
    /\ r.fn = "fetchTodos" /\ r.phase \in {"sent", "responded"}
    /\ reqs' = Remove(r)
    /\ event' = Ev("fetchTodosReject", "reject", NoId, r, "Error fetching todos:")
    /\ UNCHANGED <<loaded, input, todoList, alert, server, nextId, lastList>>

(* ------------------------------ deleteTodo ---------------------------- *)
\* deleteTodo(id) up to its first await
deleteTodo(id) ==
    /\ reqs' = reqs (+) SetToBag({DeleteRequest(id)})
    /\ event' = Ev("deleteTodo", "click", id, DeleteRequest(id), "")
    /\ UNCHANGED <<loaded, input, todoList, alert, server, nextId, lastList>>

\* click on the delete button of row i: onclick="deleteTodo(${todo.id})"
DeleteClick(i) ==
    /\ Running /\ CanIssue
    /\ deleteTodo(todoList.rows[i].deleteId)

\* a mutant of deleteTodoResponse: the row is removed before the re-fetch
deleteTodoResponseOptimistic(r) ==
    /\ Running
    /\ r.fn = "deleteTodo" /\ r.phase = "responded"
    /\ reqs' = IF r.ok THEN fetchTodos(Remove(r)) ELSE Remove(r)
    /\ todoList' =
          IF r.ok
          THEN [todoList EXCEPT
                  !.rows = SelectSeq(@, LAMBDA row : row.deleteId # r.id)]
          ELSE todoList
    /\ event' = Ev("deleteTodoResponse", "response", NoId, r, "")
    /\ UNCHANGED <<loaded, input, alert, server, nextId, lastList>>

\* deleteTodo() after `await fetch(...)` resolved
deleteTodoResponse(r) ==
    /\ Running
    /\ r.fn = "deleteTodo" /\ r.phase = "responded"
    /\ reqs' = IF r.ok THEN fetchTodos(Remove(r)) ELSE Remove(r)
    /\ event' = Ev("deleteTodoResponse", "response", NoId, r, "")
    /\ UNCHANGED <<loaded, input, todoList, alert, server, nextId, lastList>>

\* deleteTodo(): `await fetch(...)` rejected
deleteTodoReject(r) ==
    /\ Running
    /\ r.fn = "deleteTodo" /\ r.phase \in {"sent", "responded"}
    /\ reqs' = Remove(r)
    /\ event' = Ev("deleteTodoReject", "reject", NoId, r, "Error deleting todo:")
    /\ UNCHANGED <<loaded, input, todoList, alert, server, nextId, lastList>>

(* ------------------------------ toggleTodo ---------------------------- *)
\* toggleTodo(id) up to its first await
toggleTodo(id) ==
    /\ reqs' = reqs (+) SetToBag({ToggleRequest(id)})
    /\ event' = Ev("toggleTodo", "click", id, ToggleRequest(id), "")
    /\ UNCHANGED <<loaded, input, todoList, alert, server, nextId, lastList>>

\* click on the toggle button of row i: onclick="toggleTodo(${todo.id})"
ToggleClick(i) ==
    /\ Running /\ CanIssue
    /\ toggleTodo(todoList.rows[i].toggleId)

\* a mutant of toggleTodoResponse: the list is fetched whatever the status
toggleTodoResponseAlways(r) ==
    /\ Running
    /\ r.fn = "toggleTodo" /\ r.phase = "responded"
    /\ reqs' = fetchTodos(Remove(r))
    /\ event' = Ev("toggleTodoResponse", "response", NoId, r, "")
    /\ UNCHANGED <<loaded, input, todoList, alert, server, nextId, lastList>>

\* toggleTodo() after `await fetch(...)` resolved
toggleTodoResponse(r) ==
    /\ Running
    /\ r.fn = "toggleTodo" /\ r.phase = "responded"
    /\ reqs' = IF r.ok THEN fetchTodos(Remove(r)) ELSE Remove(r)
    /\ event' = Ev("toggleTodoResponse", "response", NoId, r, "")
    /\ UNCHANGED <<loaded, input, todoList, alert, server, nextId, lastList>>

\* toggleTodo(): `await fetch(...)` rejected
toggleTodoReject(r) ==
    /\ Running
    /\ r.fn = "toggleTodo" /\ r.phase \in {"sent", "responded"}
    /\ reqs' = Remove(r)
    /\ event' = Ev("toggleTodoReject", "reject", NoId, r, "Error toggling todo:")
    /\ UNCHANGED <<loaded, input, todoList, alert, server, nextId, lastList>>

(* ------------------------------ the remote API ------------------------ *)
Respond(r, ok, parses, todos, hasMsg, msg) ==
    [r EXCEPT !.phase = "responded", !.ok = ok, !.parses = parses,
              !.todos = todos, !.hasMsg = hasMsg, !.msg = msg]

Has(id) == \E i \in 1..Len(server) : server[i].id = id

RECURSIVE Without(_, _)
Without(tasks, id) ==
    IF tasks = <<>> THEN <<>>
    ELSE IF Head(tasks).id = id THEN Without(Tail(tasks), id)
         ELSE <<Head(tasks)>> \o Without(Tail(tasks), id)

Toggled(tasks, id) ==
    [i \in 1..Len(tasks) |->
        IF tasks[i].id = id THEN [tasks[i] EXCEPT !.completed = ~@]
        ELSE tasks[i]]

\* the server's state after it accepts request r
Apply(r) ==
    CASE r.method = "POST"   -> Append(server, Task(nextId, r.title, FALSE))
      [] r.method = "DELETE" -> Without(server, r.id)
      [] r.method = "PUT"    -> Toggled(server, r.id)
      [] OTHER               -> server

\* the server can accept request r
Acceptable(r) ==
    CASE r.method = "POST"   -> nextId <= MaxId
      [] r.method = "GET"    -> TRUE
      [] OTHER               -> Has(r.id)

\* 2xx: the request is carried out; a GET answers the stored tasks
ServerOk(r) ==
    /\ r.phase = "sent"
    /\ Acceptable(r)
    /\ server' = Apply(r)
    /\ nextId' = IF r.method = "POST" THEN nextId + 1 ELSE nextId
    /\ reqs' = Remove(r) (+) SetToBag({
                  Respond(r, TRUE, TRUE,
                          IF r.method = "GET" THEN server ELSE NoTodos,
                          FALSE, "")})
    /\ event' = Ev("server", "request", NoId, r, "")
    /\ UNCHANGED <<loaded, input, todoList, alert, lastList>>

NoBody == [parses |-> FALSE, hasMsg |-> FALSE, msg |-> ""]

\* bodies of a refused POST: no JSON at all, JSON without a message, with
\* a message, with an empty message
Bodies ==
    {NoBody,
     [parses |-> TRUE,  hasMsg |-> FALSE, msg |-> ""],
     [parses |-> TRUE,  hasMsg |-> TRUE,  msg |-> "title too long"],
     [parses |-> TRUE,  hasMsg |-> TRUE,  msg |-> ""]}

\* 2xx on a GET with a body that is not JSON
ServerGarbled(r) ==
    /\ r.phase = "sent" /\ r.method = "GET"
    /\ reqs' = Remove(r) (+) SetToBag({Respond(r, TRUE, FALSE, NoTodos, FALSE, "")})
    /\ event' = Ev("server", "request", NoId, r, "")
    /\ UNCHANGED <<loaded, input, todoList, alert, server, nextId, lastList>>

\* non-2xx: nothing is changed
ServerFail(r, b) ==
    /\ r.phase = "sent"
    /\ reqs' = Remove(r) (+) SetToBag({
                  Respond(r, FALSE, b.parses, NoTodos, b.hasMsg, b.msg)})
    /\ event' = Ev("server", "request", NoId, r, "")
    /\ UNCHANGED <<loaded, input, todoList, alert, server, nextId, lastList>>

\* a POST is refused with one of the bodies
ServerRefusePost(r, b) == r.method = "POST" /\ ServerFail(r, b)

\* a PUT or a DELETE is refused; its body is never read
ServerRefuseWrite(r) == r.method \in {"PUT", "DELETE"} /\ ServerFail(r, NoBody)

\* a GET is refused; its body is never read
ServerRefuseGet(r) == r.method = "GET" /\ ServerFail(r, NoBody)

(* ------------------------------ specification ------------------------- *)
\* steps of the user
User ==
    \/ \E v \in InputValues : UserInput(v)
    \/ Dismiss
    \/ Click
    \/ \E key \in Keys : KeyPress(key)
    \/ \E i \in 1..Len(todoList.rows) : DeleteClick(i)
    \/ \E i \in 1..Len(todoList.rows) : ToggleClick(i)

\* continuations of the script on a response
Continue ==
    \/ \E r \in InFlight : addTodoResponse(r)
    \/ \E r \in InFlight : addTodoErrorBody(r)
    \/ \E r \in InFlight : fetchTodosResponse(r)
    \/ \E r \in InFlight : fetchTodosBody(r)
    \/ \E r \in InFlight : deleteTodoResponse(r)
    \/ \E r \in InFlight : toggleTodoResponse(r)

\* continuations of the script on a request that never completed
Reject ==
    \/ \E r \in InFlight : addTodoReject(r)
    \/ \E r \in InFlight : fetchTodosReject(r)
    \/ \E r \in InFlight : deleteTodoReject(r)
    \/ \E r \in InFlight : toggleTodoReject(r)

Next ==
    \/ DOMContentLoaded
    \/ User
    \/ Continue
    \/ Reject
    \/ \E r \in InFlight : ServerOk(r)
    \/ \E r \in InFlight : ServerGarbled(r)
    \/ \E r \in InFlight : ServerRefuseGet(r)
    \/ \E r \in InFlight : ServerRefuseWrite(r)
    \/ \E r \in InFlight, b \in Bodies : ServerRefusePost(r, b)

Spec == Init /\ [][Next]_vars

\* the environment in which every request completes and every GET succeeds
NextReliable ==
    \/ DOMContentLoaded
    \/ User
    \/ Continue
    \/ \E r \in InFlight : ServerOk(r)
    \/ \E r \in InFlight : ServerRefuseWrite(r)
    \/ \E r \in InFlight, b \in Bodies : ServerRefusePost(r, b)

SpecReliable == Init /\ [][NextReliable]_vars

(* ------------------------------ properties ---------------------------- *)
IsWhite(s) == \A i \in 1..Len(s) : s[i] = " "

\* t is s without the whitespace at its two ends
IsTrimOf(t, s) ==
    /\ t = <<>> \/ (t[1] # " " /\ t[Len(t)] # " ")
    /\ \E i \in 0..Len(s) :
          /\ i + Len(t) <= Len(s)
          /\ IsWhite(SubSeq(s, 1, i))
          /\ SubSeq(s, i + 1, i + Len(t)) = t
          /\ IsWhite(SubSeq(s, i + Len(t) + 1, Len(s)))

\* the requests of a bag the server has not seen yet
Unseen(b) == [r \in {x \in BagToSet(b) : x.phase = "sent"} |-> b[r]]

\* the requests issued by the step
Issued == Unseen(reqs') (-) Unseen(reqs)

IssuedOne(method) ==
    /\ BagCardinality(Issued) = 1
    /\ \A q \in BagToSet(Issued) : q.method = method

IssuedNone == BagCardinality(Issued) = 0

\* the step ends the life of the request it resumed on
Consumed == reqs' = (reqs (-) SetToBag({event'.req})) (+) Issued

\* the tasks a view shows, read back from its rows
Displayed(list) ==
    [i \in 1..Len(list.rows) |->
        [id         |-> list.rows[i].toggleId,
         title      |-> list.rows[i].title,
         completed  |-> list.rows[i].label = "Undo",
         created_at |-> list.rows[i].time]]

\* the view shows exactly these tasks
Shows(list, tasks) ==
    /\ Displayed(list) = tasks
    /\ list.placeholder = (tasks = <<>>)

\* C1: with this client the only writer and every GET answered, whenever no
\* request is in flight the rendered list equals the tasks of the server.
C1_QuiescentViewIsServer ==
    (loaded /\ reqs = EmptyBag) => Shows(todoList, server)

\* C2: the view is the rendering of the payload of the list response that
\* was parsed last (blank before the first), whatever the order in which
\* overlapping responses resolve, and only that step changes the view.
C2_LastResponseWins ==
    [][ /\ (event'.op = "fetchTodosBody" /\ event'.req.parses)
            => Shows(todoList', event'.req.todos)
        /\ ~(event'.op = "fetchTodosBody" /\ event'.req.parses)
            => todoList' = todoList ]_vars

C2_Witness ==
    /\ event.op = "fetchTodosBody" /\ event.req.parses
    /\ reqs = EmptyBag
    /\ event.req.todos # server
    /\ Shows(todoList, event.req.todos)

\* C3: addTodo on a value whose trimmed form is not empty issues exactly one
\* POST carrying the trimmed value; when that POST resolves with a success
\* status the input is cleared and exactly one GET is issued.
C3_CreateIssuesOneTrimmed ==
    [][ /\ (event'.op = "addTodo" /\ ~IsWhite(input))
            => /\ IssuedOne("POST")
               /\ \A q \in BagToSet(Issued) :
                     q.hasBody /\ IsTrimOf(q.title, input)
               /\ reqs' = reqs (+) Issued
        /\ (event'.op = "addTodoResponse" /\ event'.req.ok)
            => /\ input' = <<>>
               /\ IssuedOne("GET")
               /\ Consumed ]_vars

C3_Witness ==
    /\ event.op = "addTodoResponse" /\ event.req.ok
    /\ event.req.title = <<"a">>
    /\ input = <<>>
    /\ BagIn(ListRequest, reqs)
    /\ \E i \in 1..Len(server) : server[i].title = <<"a">> /\ server[i].id = 2

\* C4: addTodo on an empty or whitespace-only value issues no request,
\* raises no alert and leaves the input and the view as they are.
C4_BlankCreateIsNoOp ==
    [][ (event'.op = "addTodo" /\ IsWhite(input))
            => UNCHANGED <<reqs, alert, input, todoList, server>> ]_vars

C4_Witness ==
    /\ event.op = "addTodo"
    /\ input = <<" ", " ">>
    /\ reqs = EmptyBag

\* C5: a POST that resolves with a failure status raises exactly one alert,
\* once its body is read: with the message of the body when it has one,
\* with a generic text otherwise; the input is kept and no GET is issued.
C5_CreateFailureAlerts ==
    [][ /\ (event'.op = "addTodoResponse" /\ ~event'.req.ok)
            => /\ UNCHANGED <<alert, input, todoList>>
               /\ IssuedNone
               /\ reqs' = (reqs (-) SetToBag({event'.req}))
                          (+) SetToBag({[event'.req EXCEPT !.phase = "body"]})
        /\ event'.op = "addTodoErrorBody"
            => /\ alert = NoAlert /\ alert' # NoAlert
               /\ LET b == event'.req
                  IN  CASE b.parses /\ b.hasMsg /\ b.msg # ""
                             -> alert' = <<AlertPrefix, b.msg>>
                        [] b.parses /\ ~(b.hasMsg /\ b.msg # "")
                             -> alert' = <<AlertPrefix, UnknownError>>
                        [] OTHER -> alert' = RetryAlert
               /\ UNCHANGED <<input, todoList>>
               /\ IssuedNone
               /\ Consumed ]_vars

C5_Witness ==
    /\ event.op = "addTodoErrorBody"
    /\ event.req.msg = "title too long"
    /\ alert = <<AlertPrefix, "title too long">>
    /\ input = <<" ", "a", " ">>

\* C6: a POST that never completes raises exactly one alert, the retry
\* message, keeps the input and the view and issues no GET.
C6_CreateRejectAlerts ==
    [][ event'.op = "addTodoReject"
            => /\ alert = NoAlert /\ alert' = RetryAlert
               /\ UNCHANGED <<input, todoList>>
               /\ IssuedNone
               /\ Consumed ]_vars

C6_Witness ==
    /\ event.op = "addTodoReject"
    /\ alert = RetryAlert
    /\ input = <<" ", "a", " ">>
    /\ todoList.rows # <<>>

\* C7: a GET that resolves with a failure status ends fetchTodos there: the
\* view is as before, nothing is rendered later for it, no alert is raised.
C7_ListFailureKeepsView ==
    [][ (event'.op = "fetchTodosResponse" /\ ~event'.req.ok)
            => /\ UNCHANGED <<todoList, alert, input>>
               /\ IssuedNone
               /\ Consumed ]_vars

C7_Witness ==
    /\ event.op = "fetchTodosResponse" /\ ~event.req.ok
    /\ todoList.rows # <<>>
    /\ reqs = EmptyBag

\* C8: a DELETE or PUT that resolves with a failure status or never
\* completes raises no alert, keeps the view and the input and issues no
\* GET; only the failure of a POST raises an alert.
C8_WriteFailureIsSilent ==
    [][ /\ (\/ event'.op \in {"deleteTodoReject", "toggleTodoReject"}
            \/ /\ event'.op \in {"deleteTodoResponse", "toggleTodoResponse"}
               /\ ~event'.req.ok)
            => /\ UNCHANGED <<alert, todoList, input>>
               /\ IssuedNone
               /\ Consumed
        /\ (alert' # alert /\ alert' # NoAlert)
            => /\ event'.op \in {"addTodoErrorBody", "addTodoReject"}
               /\ event'.req.method = "POST" ]_vars

C8_Witness ==
    /\ event.op = "toggleTodoResponse" /\ ~event.req.ok
    /\ alert = NoAlert
    /\ reqs = EmptyBag

\* C9: deleteTodo(id) issues exactly one DELETE and toggleTodo(id) exactly
\* one PUT, without body, addressed to id; when it resolves with a success
\* status exactly one GET is issued; none of their steps touches the input.
C9_WriteIssuesOneThenRefetch ==
    [][ /\ event'.op = "deleteTodo"
            => /\ IssuedOne("DELETE")
               /\ \A q \in BagToSet(Issued) : q.id = event'.id /\ ~q.hasBody
               /\ reqs' = reqs (+) Issued
        /\ event'.op = "toggleTodo"
            => /\ IssuedOne("PUT")
               /\ \A q \in BagToSet(Issued) : q.id = event'.id /\ ~q.hasBody
               /\ reqs' = reqs (+) Issued
        /\ (/\ event'.op \in {"deleteTodoResponse", "toggleTodoResponse"}
            /\ event'.req.ok)
            => IssuedOne("GET") /\ Consumed
        /\ event'.op \in {"deleteTodo", "deleteTodoResponse", "deleteTodoReject",
                          "toggleTodo", "toggleTodoResponse", "toggleTodoReject"}
            => input' = input ]_vars

C9_Witness ==
    /\ event.op = "deleteTodoResponse" /\ event.req.ok
    /\ event.req.id = 2
    /\ BagIn(ListRequest, reqs)
    /\ input # <<>>

\* C10: the rendering of a non-empty task sequence has one row per task, in
\* the order of the sequence, its toggle and its delete control bound to the
\* id of the task, the toggle labelled Complete for an open task and Undo
\* for a completed one, and no empty-state placeholder.
C10_RowsFollowTasks ==
    lastList.has /\ lastList.todos # <<>> =>
        /\ ~todoList.placeholder
        /\ Len(todoList.rows) = Len(lastList.todos)
        /\ \A i \in 1..Len(lastList.todos) :
              LET t == lastList.todos[i]
                  row == todoList.rows[i]
              IN  /\ row.toggleId = t.id
                  /\ row.deleteId = t.id
                  /\ row.title = t.title
                  /\ row.label = IF t.completed THEN "Undo" ELSE "Complete"

C10_Witness ==
    /\ event.op = "fetchTodosBody"
    /\ Len(lastList.todos) = 2
    /\ lastList.todos[1].completed /\ ~lastList.todos[2].completed
    /\ Len(todoList.rows) = 2

\* the step calls displayTodos on the payload of a parsed list response
Renders == event'.op = "fetchTodosBody" /\ event'.req.parses

Placeholder == [placeholder |-> TRUE, rows |-> <<>>]

\* C11: the rendering of the empty sequence is exactly the empty-state
\* placeholder, without any row, whatever the container held before.
C11_EmptyRendersPlaceholder ==
    [][ (Renders /\ event'.req.todos = <<>>) => todoList' = Placeholder ]_vars

C11_Witness ==
    /\ event.op = "fetchTodosBody" /\ event.req.parses
    /\ event.req.todos = <<>>
    /\ event.over = "rows"
    /\ todoList = Placeholder

\* views displayTodos may find in the container
PriorViews ==
    {Blank, Placeholder, todoList, todoList'}
    \cup {[placeholder |-> FALSE, rows |-> <<todoItem(server[i])>>] :
             i \in 1..Len(server)}

\* C12: displayTodos(s) yields the same view on every previous content,
\* and the same view again when it is called a second time with s.
C12_RenderIdempotent ==
    [][ Renders =>
          LET s == event'.req.todos
          IN  /\ \A prior \in PriorViews : displayTodos(prior, s) = todoList'
              /\ displayTodos(displayTodos(todoList, s), s) = todoList' ]_vars

C12_Witness ==
    /\ event.op = "fetchTodosBody" /\ event.req.parses
    /\ event.over = "same"
    /\ Len(todoList.rows) = 2
    /\ Len(event.req.todos) = 2

\* the view has a row for the task id
HasRow(list, id) ==
    \E j \in 1..Len(list.rows) :
        list.rows[j].toggleId = id \/ list.rows[j].deleteId = id

Lists(todos, id) == \E i \in 1..Len(todos) : todos[i].id = id

\* C13: a DELETE that resolves with a success status triggers a GET, and
\* once a list response that omits an id is rendered the view has no row
\* for that id.
C13_DeletedRowGone ==
    [][ /\ (event'.op = "deleteTodoResponse" /\ event'.req.ok)
            => IssuedOne("GET")
        /\ Renders
            => \A id \in 0..nextId :
                  ~Lists(event'.req.todos, id) => ~HasRow(todoList', id) ]_vars

\* task 1, the only task there ever was, is deleted; its row was in the view
\* when the list without it was rendered
C13_Witness ==
    /\ event.op = "fetchTodosBody" /\ event.req.parses
    /\ event.over = "rows"
    /\ event.req.todos = <<>>
    /\ server = <<>> /\ nextId = 2
    /\ reqs = EmptyBag
    /\ ~HasRow(todoList, 1)

\* the step described by e is the end of a request that failed: it never
\* completed, it carried a failure status, or its body could not be parsed
Failure(e) ==
    \/ e.op \in {"addTodoReject", "fetchTodosReject", "deleteTodoReject",
                 "toggleTodoReject", "addTodoErrorBody"}
    \/ e.op \in {"fetchTodosResponse", "deleteTodoResponse",
                 "toggleTodoResponse"} /\ ~e.req.ok
    \/ e.op = "fetchTodosBody" /\ ~e.req.parses

\* every operation of the page can be triggered, once the alert, if there
\* is one, is dismissed
Operable ==
    /\ loaded
    /\ ~Running => ENABLED Dismiss
    /\ Running =>
          /\ \A v \in InputValues \ {input} : ENABLED UserInput(v)
          /\ IsWhite(input) \/ CanIssue =>
                ENABLED Click /\ ENABLED KeyPress("Enter")
          /\ CanIssue =>
                \A i \in 1..Len(todoList.rows) :
                    ENABLED DeleteClick(i) /\ ENABLED ToggleClick(i)

\* C14: no failure is terminal: the step in which a request fails ends that
\* request inside its own function, and in the state it leaves every
\* operation can still be triggered.
C14_NoFailureIsTerminal ==
    /\ [](Failure(event) => Operable)
    /\ [][ Failure(event') => Consumed /\ IssuedNone /\ loaded' ]_vars

C14_Witness ==
    /\ Failure(event)
    /\ event.op = "fetchTodosBody"
    /\ Operable
    /\ input = <<" ", "a", " ">>
    /\ todoList.rows # <<>>
    /\ CanIssue

\* C15: DOMContentLoaded issues exactly one GET and nothing else; from then
\* on a click on the add button and a press of Enter run addTodo, and a
\* press of any other key issues no request and changes nothing.
C15_InitializeAndTriggers ==
    [][ /\ event'.op = "DOMContentLoaded"
            => /\ IssuedOne("GET")
               /\ reqs' = reqs (+) Issued
               /\ UNCHANGED <<input, todoList, alert>>
        /\ (\/ event'.by = "click" /\ event'.id = NoId
            \/ event'.by = "Enter")
            => /\ loaded
               /\ event'.op = "addTodo"
               /\ ~IsWhite(input) =>
                     /\ IssuedOne("POST")
                     /\ \A q \in BagToSet(Issued) : IsTrimOf(q.title, input)
        /\ event'.by \in Keys \ {"Enter"}
            => /\ loaded
               /\ UNCHANGED <<loaded, input, todoList, reqs, alert, server,
                              nextId, lastList>> ]_vars

C15_Witness ==
    /\ event.op = "keypress" /\ event.by = "a"
    /\ input = <<" ", "a", " ">>
    /\ reqs = EmptyBag
    /\ lastList.has

\* C16: addTodo has no in-flight guard: with POSTs unresolved it is still
\* enabled and issues one more POST of its own, also when an identical one
\* is in flight, and every POST that succeeds issues a GET of its own.
C16_NoInFlightGuard ==
    /\ [](loaded /\ Running /\ ~IsWhite(input) /\ CanIssue => ENABLED Click)
    /\ [][ /\ (event'.op = "addTodo" /\ ~IsWhite(input))
               => /\ BagCardinality(Issued) = 1
                  /\ \A q \in BagToSet(Issued) :
                        /\ q.method = "POST" /\ q.title = trim(input)
                        /\ CopiesIn(q, reqs') = CopiesIn(q, reqs) + 1
                  /\ reqs' = reqs (+) Issued
           /\ (event'.op = "addTodoResponse" /\ event'.req.ok)
               => /\ CopiesIn(ListRequest, reqs')
                        = CopiesIn(ListRequest, reqs) + 1
                  /\ BagCardinality(reqs') = BagCardinality(reqs) ]_vars

\* two triggers on the same input before any response: two identical POSTs
C16_Witness ==
    /\ event.op = "addTodo"
    /\ CopiesIn(CreateRequest(<<"a">>), reqs) = 2
    /\ input = <<" ", "a", " ">>

\* C17: a POST that resolves with a success status empties the input
\* whatever it holds then, also a value typed after the POST was issued.
C17_ClearsWhateverIsTyped ==
    [][ (event'.op = "addTodoResponse" /\ event'.req.ok)
            => /\ input' = <<>>
               /\ event'.had = input ]_vars

\* the value that was cleared is not the title that was sent
C17_Witness ==
    /\ event.op = "addTodoResponse" /\ event.req.ok
    /\ event.req.title = <<"a">>
    /\ event.had = <<" ", " ">>
    /\ input = <<>>

\* C18: once a list response has been rendered the view is either exactly
\* the empty-state placeholder or a non-empty list of rows, never blank and
\* never the placeholder together with rows.
C18_PlaceholderOrRows ==
    lastList.has =>
        \/ todoList = Placeholder
        \/ ~todoList.placeholder /\ todoList.rows # <<>>

\* rows rendered into a container that held the placeholder
C18_Witness ==
    /\ event.op = "fetchTodosBody" /\ event.req.parses
    /\ event.over = "empty"
    /\ ~todoList.placeholder
    /\ Len(todoList.rows) = 2

\* C19: a list response with a success status whose body cannot be parsed
\* is never rendered: the view stays, the error is logged by the catch of
\* fetchTodos, no alert is raised.
C19_UnparsedListKeepsView ==
    [][ (event'.op = "fetchTodosBody" /\ event'.req.ok /\ ~event'.req.parses)
            => /\ UNCHANGED <<todoList, lastList, alert, input>>
               /\ event'.log = "Error fetching todos:"
               /\ IssuedNone
               /\ Consumed ]_vars

C19_Witness ==
    /\ event.op = "fetchTodosBody"
    /\ event.req.ok /\ ~event.req.parses
    /\ event.log = "Error fetching todos:"
    /\ todoList.rows # <<>>
    /\ alert = NoAlert

====
